---- MODULE Spec2Model ----
(***************************************************************************)
(* Model of the student-marks bot (src/main.py): the handler               *)
(* TelegramBot.handle_student_id, the scraper                              *)
(* StudentDataFetcher.fetch_student_data with its reconciliation of        *)
(* repeated subjects, the report formatter and the chunked sending.        *)
(*                                                                         *)
(* Strings.  A Python str is modelled as a sequence of atoms               *)
(* [c |-> label, n |-> count]: the character (or fixed source literal)     *)
(* named by label, taking n code points.  Digits, whitespace, the newline  *)
(* and punctuation always have n = 1; a letter may be run-length encoded   *)
(* (n > 1 is that letter repeated n times), and a literal of the source    *)
(* that holds no newline is one atom of its length in code points.         *)
(* Labels: "0".."9" ASCII digits, "ar0".."ar9" the Arabic-Indic digits     *)
(* U+0660..U+0669, "sup2" SUPERSCRIPT TWO U+00B2, "Yd" U+0178 followed by  *)
(* "m0".."m9" the two-code-point keys of the numeral table as they stand   *)
(* in the source file, "NL" the newline, " " the space.                    *)
(*                                                                         *)
(* Numbers.  A mark (a Python float) is an integer number of hundredths.   *)
(* A datetime is the integer year*10000 + month*100 + day (all parsed      *)
(* values have time 00:00), which orders as datetimes do.                  *)
(***************************************************************************)
EXTENDS Integers, Sequences, FiniteSets, TLC

VARIABLES pc, text, student_id, response, subjects_data, student_data,
          escaped, fetchCalls, sent, formatted_message, parts, partIdx,
          current_message

vars == <<pc, text, student_id, response, subjects_data, student_data,
          escaped, fetchCalls, sent, formatted_message, parts, partIdx,
          current_message>>

(* Python's None, where a record may stand instead *)
None == [none |-> TRUE]

----------------------------------------------------------------------------
(* Strings                                                                 *)

Ch(c) == [c |-> c, n |-> 1]

Run(c, k) == [c |-> c, n |-> k]

(* the str whose characters are the labels of cs *)
S(cs) == [i \in 1..Len(cs) |-> Ch(cs[i])]

NL == Ch("NL")

RECURSIVE StrLen(_)
(* len(s): code points *)
StrLen(s) == IF s = <<>> THEN 0 ELSE Head(s).n + StrLen(Tail(s))

IsSpace(a) == a.c \in {" ", "NL"}

AsciiDigits == <<"0", "1", "2", "3", "4", "5", "6", "7", "8", "9">>

ArabicIndicDigits ==
  <<"ar0", "ar1", "ar2", "ar3", "ar4", "ar5", "ar6", "ar7", "ar8", "ar9">>

(* second code point of each key of arabic_to_english, in dict order *)
TableSeconds == <<"m0", "m1", "m2", "m3", "m4", "m5", "m6", "m7", "m8", "m9">>

IndexIn(seq, x) == IF \E i \in 1..Len(seq) : seq[i] = x
                   THEN CHOOSE i \in 1..Len(seq) : seq[i] = x
                   ELSE 0

(* Unicode decimal digit (category Nd) with its value, -1 otherwise *)
DecimalValue(a) ==
  IF a.n # 1 THEN -1
  ELSE IF IndexIn(AsciiDigits, a.c) > 0 THEN IndexIn(AsciiDigits, a.c) - 1
  ELSE IF IndexIn(ArabicIndicDigits, a.c) > 0
       THEN IndexIn(ArabicIndicDigits, a.c) - 1
  ELSE -1

IsDecimalChar(a) == DecimalValue(a) >= 0

(* str.isdigit per character: decimals and the digits that need special
   handling, such as the superscript digits *)
IsDigitChar(a) == IsDecimalChar(a) \/ (a.n = 1 /\ a.c = "sup2")

RECURSIVE LStrip(_)
LStrip(s) == IF s # <<>> /\ IsSpace(Head(s)) THEN LStrip(Tail(s)) ELSE s

RECURSIVE RStrip(_)
RStrip(s) == IF s # <<>> /\ IsSpace(s[Len(s)])
             THEN RStrip(SubSeq(s, 1, Len(s) - 1))
             ELSE s

(* str.strip() *)
Strip(s) == RStrip(LStrip(s))

(* str.isdigit(): non-empty and every character a digit *)
IsDigit(s) == s # <<>> /\ \A i \in 1..Len(s) : IsDigitChar(s[i])

(* every character a decimal digit, and at least one *)
IsDecimal(s) == s # <<>> /\ \A i \in 1..Len(s) : IsDecimalChar(s[i])

RECURSIVE ReplacePair(_, _, _, _)
(* s.replace(<a b>, <c>) for a two-character key, left to right *)
ReplacePair(s, a, b, c) ==
  IF Len(s) < 2 THEN s
  ELSE IF s[1] = Ch(a) /\ s[2] = Ch(b)
       THEN <<Ch(c)>> \o ReplacePair(SubSeq(s, 3, Len(s)), a, b, c)
       ELSE <<s[1]>> \o ReplacePair(Tail(s), a, b, c)

RECURSIVE ReplaceAll(_, _)
ReplaceAll(s, k) ==
  IF k > Len(TableSeconds) THEN s
  ELSE ReplaceAll(ReplacePair(s, "Yd", TableSeconds[k], AsciiDigits[k]), k + 1)

(* StudentDataFetcher.convert_arabic_numbers *)
convert_arabic_numbers(s) == Strip(ReplaceAll(s, 1))

----------------------------------------------------------------------------
(* Numbers and dates                                                       *)

(* what float() and strptime() raise on text they cannot read *)
ValueError == -1

(* parse_date's result for a date it cannot read (Python None) *)
NoneDate == 0

(* datetime.min, 0001-01-01 00:00 *)
DatetimeMin == 10101

(* the pass threshold of get_status and of the formatter *)
PassMark == 60

RECURSIVE DigitsValue(_)
(* int() of a run of decimal digits *)
DigitsValue(s) ==
  IF s = <<>> THEN 0
  ELSE DigitsValue(SubSeq(s, 1, Len(s) - 1)) * 10 + DecimalValue(s[Len(s)])

AllDecimal(s) == \A i \in 1..Len(s) : IsDecimalChar(s[i])

Dots(s) == {i \in 1..Len(s) : s[i] = Ch(".")}

(* float(s) in hundredths, or ValueError.  Over the model's alphabet
   (decimal digits, ".", letters other than those of "nan", "inf" and the
   exponent, whitespace, "/") float() reads exactly digits with at most one
   point and at least one digit, surrounded by whitespace.  Fraction digits
   beyond the second are dropped (no input of the model has any). *)
ParseFloat(s) ==
  LET t == Strip(s)
      dots == Dots(t)
      dot == IF dots = {} THEN Len(t) + 1 ELSE CHOOSE i \in dots : TRUE
      ip == SubSeq(t, 1, dot - 1)
      fp == SubSeq(t, dot + 1, Len(t))
      f2 == SubSeq(fp \o S(<<"0", "0">>), 1, 2)
  IN  IF Cardinality(dots) > 1 \/ ~AllDecimal(ip) \/ ~AllDecimal(fp)
         \/ Len(ip) + Len(fp) = 0
      THEN ValueError
      ELSE DigitsValue(ip) * 100 + DigitsValue(f2)

IsLeap(y) == (y % 4 = 0 /\ y % 100 # 0) \/ y % 400 = 0

DaysInMonth(y, m) ==
  IF m = 2 THEN (IF IsLeap(y) THEN 29 ELSE 28)
  ELSE IF m \in {4, 6, 9, 11} THEN 30 ELSE 31

(* StudentDataFetcher.parse_date: datetime.strptime(date_str.strip(),
   "%Y/%m/%d"), None when it raises.  %Y is four digits, %m and %d one or
   two; the whole text must match and name a calendar date of year >= 1. *)
parse_date(date_str) ==
  LET t == Strip(date_str)
      sl == {i \in 1..Len(t) : t[i] = Ch("/")}
      s1 == CHOOSE i \in sl : \A j \in sl : i <= j
      s2 == CHOOSE i \in sl : \A j \in sl : i >= j
      ys == SubSeq(t, 1, s1 - 1)
      ms == SubSeq(t, s1 + 1, s2 - 1)
      ds == SubSeq(t, s2 + 1, Len(t))
      y == DigitsValue(ys)
      m == DigitsValue(ms)
      d == DigitsValue(ds)
  IN  IF Cardinality(sl) # 2 THEN NoneDate
      ELSE IF Len(ys) # 4 \/ Len(ms) \notin {1, 2} \/ Len(ds) \notin {1, 2}
              \/ ~AllDecimal(ys) \/ ~AllDecimal(ms) \/ ~AllDecimal(ds)
           THEN NoneDate
      ELSE IF y < 1 \/ m \notin 1..12 THEN NoneDate
      ELSE IF d \notin 1..DaysInMonth(y, m) THEN NoneDate
      ELSE y * 10000 + m * 100 + d

(* the sort key  x["parsed_date"] or datetime.min  of lines 142 and 163 *)
DateKey(x) == IF x.parsed_date = NoneDate THEN DatetimeMin ELSE x.parsed_date

(* StudentDataFetcher.get_status *)
get_status(mark) ==
  IF mark = ValueError THEN "UNKNOWN"
  ELSE IF mark >= PassMark * 100 THEN "PASS" ELSE "FAIL"

----------------------------------------------------------------------------
(* fetch_student_data: extraction                                          *)

(* the "unknown" text of lines 84 and 88, 17 code points *)
UnknownText == <<Run("lit:unknown", 17)>>

(* one table row that passed the checks of lines 103 and 109, with its mark
   read (lines 111-127) *)
Occurrence(cells) ==
  LET mark_str == Strip(cells[3])
      release_date == Strip(cells[Len(cells)])
      mark == ParseFloat(convert_arabic_numbers(mark_str))
  IN  [name |-> Strip(cells[1]),
       mark |-> mark,
       status |-> get_status(mark),
       semester |-> Strip(cells[2]),
       mark_display |-> mark_str,
       release_date |-> release_date,
       parsed_date |-> parse_date(release_date)]

(* the row is appended to subjects_data: at least 4 cells, a name and a mark
   text that are not empty, and float() does not raise *)
RowEmitted(cells) ==
  /\ Len(cells) >= 4
  /\ Strip(cells[1]) # <<>>
  /\ Strip(cells[3]) # <<>>
  /\ ParseFloat(convert_arabic_numbers(Strip(cells[3]))) # ValueError

RECURSIVE ExtractFromAbort(_, _)
(* mutant of ExtractFrom: the first row that is not emitted ends the loop *)
ExtractFromAbort(rows, i) ==
  IF i > Len(rows) THEN <<>>
  ELSE IF RowEmitted(rows[i])
       THEN <<Occurrence(rows[i])>> \o ExtractFromAbort(rows, i + 1)
       ELSE <<>>

RECURSIVE ExtractFrom(_, _)
(* the loop of line 101 from row index i on: a row that is not emitted is
   passed over and the loop goes on *)
ExtractFrom(rows, i) ==
  IF i > Len(rows) THEN <<>>
  ELSE IF RowEmitted(rows[i])
       THEN <<Occurrence(rows[i])>> \o ExtractFrom(rows, i + 1)
       ELSE ExtractFrom(rows, i + 1)

(* for row in rows[1:]: the header row is skipped *)
ExtractRows(rows) == ExtractFrom(rows, 2)

----------------------------------------------------------------------------
(* fetch_student_data: reconciliation                                      *)

RECURSIVE GroupNamesAdjacent(_)
(* mutant of GroupNames: a name opens a new group whenever it differs from
   the name of the row before, as grouping adjacent rows would *)
GroupNamesAdjacent(data) ==
  IF data = <<>> THEN <<>>
  ELSE LET rest == GroupNamesAdjacent(SubSeq(data, 1, Len(data) - 1))
           nm == data[Len(data)].name
       IN  IF rest # <<>> /\ rest[Len(rest)] = nm THEN rest
           ELSE Append(rest, nm)

RECURSIVE GroupNames(_)
(* the keys of subject_groups in insertion order: each name once, at the
   place of its first occurrence; names compare as exact strings *)
GroupNames(data) ==
  IF data = <<>> THEN <<>>
  ELSE LET rest == GroupNames(SubSeq(data, 1, Len(data) - 1))
           nm == data[Len(data)].name
       IN  IF \E i \in 1..Len(rest) : rest[i] = nm THEN rest
           ELSE Append(rest, nm)

(* subject_groups[name]: the occurrences of the name in row order *)
GroupOf(data, nm) ==
  LET Same(x) == x.name = nm IN SelectSeq(data, Same)

(* x is put after every element whose key is <= its own *)
InsertByDate(sorted, x) ==
  LET before == {i \in 1..Len(sorted) : DateKey(sorted[i]) <= DateKey(x)}
      k == Cardinality(before)
  IN  SubSeq(sorted, 1, k) \o <<x>> \o SubSeq(sorted, k + 1, Len(sorted))

RECURSIVE SortByDate(_)
(* sorted(seq, key=parsed_date or datetime.min) and list.sort with the same
   key: ascending and stable *)
SortByDate(seq) ==
  IF seq = <<>> THEN <<>>
  ELSE InsertByDate(SortByDate(SubSeq(seq, 1, Len(seq) - 1)), seq[Len(seq)])

(* oldest = sorted_by_date[0] *)
Oldest(occurrences) == SortByDate(occurrences)[1]

RECURSIVE MaxByMarkLast(_)
(* mutant of MaxByMark: an equal mark replaces the best so far, so the last
   maximum is returned *)
MaxByMarkLast(occurrences) ==
  IF Len(occurrences) = 1 THEN occurrences[1]
  ELSE LET best == MaxByMarkLast(SubSeq(occurrences, 1, Len(occurrences) - 1))
           x == occurrences[Len(occurrences)]
       IN  IF x.mark >= best.mark THEN x ELSE best

RECURSIVE MaxByMark(_)
(* max(occurrences, key=mark): an element replaces the best so far only
   when its mark is greater, so the first maximum is returned *)
MaxByMark(occurrences) ==
  IF Len(occurrences) = 1 THEN occurrences[1]
  ELSE LET best == MaxByMark(SubSeq(occurrences, 1, Len(occurrences) - 1))
           x == occurrences[Len(occurrences)]
       IN  IF x.mark > best.mark THEN x ELSE best

(* mutant of Combine: the status is copied from the oldest occurrence
   instead of being computed from the greatest mark *)
CombineOldestStatus(nm, occurrences) ==
  LET oldest == Oldest(occurrences)
      newest_mark_entry == MaxByMark(occurrences)
  IN  [name |-> nm,
       mark |-> newest_mark_entry.mark,
       status |-> oldest.status,
       semester |-> oldest.semester,
       mark_display |-> newest_mark_entry.mark_display,
       release_date |-> oldest.release_date,
       parsed_date |-> oldest.parsed_date]

(* the dict appended at lines 150-160 *)
Combine(nm, occurrences) ==
  LET oldest == Oldest(occurrences)
      newest_mark_entry == MaxByMark(occurrences)
  IN  [name |-> nm,
       mark |-> newest_mark_entry.mark,
       status |-> get_status(newest_mark_entry.mark),
       semester |-> oldest.semester,
       mark_display |-> newest_mark_entry.mark_display,
       release_date |-> oldest.release_date,
       parsed_date |-> oldest.parsed_date]

(* final_subjects before the sort of line 163: one per group, in the order
   of the groups *)
Reconcile(data) ==
  LET names == GroupNames(data)
  IN  [i \in 1..Len(names) |-> Combine(names[i], GroupOf(data, names[i]))]

(* mutant of FinalSort: the list is left in the order of the groups *)
FinalSortSkipped(final_subjects) == final_subjects

(* final_subjects.sort(key=...) *)
FinalSort(final_subjects) == SortByDate(final_subjects)

----------------------------------------------------------------------------
(* fetch_student_data: the whole call                                      *)

(* requests.RequestException and the subclasses requests.get and
   raise_for_status raise *)
RequestExceptions == {"ConnectionError", "Timeout", "HTTPError"}

(* the exception the try body raises for this answer of the site, or
   "none": requests.get raises on a transport error or after the timeout,
   raise_for_status on a status from 400 to 599 *)
Raised(resp) ==
  IF resp.kind \in {"ConnectionError", "Timeout"} THEN resp.kind
  ELSE IF resp.status >= 400 /\ resp.status < 600 THEN "HTTPError"
  ELSE "none"

(* mutant of Caught: a timeout is not among the exceptions caught *)
CaughtNoTimeout(exc) == exc \in {"ConnectionError", "HTTPError"}

(* the two except clauses: RequestException, then Exception *)
Caught(exc) == exc \in RequestExceptions \/ exc = "Exception"

(* the value the try body returns for a page (lines 80-170), with the
   subjects_data it built on the way *)
TryBody(id, page) ==
  LET name == IF page.name_element # <<>> THEN Strip(page.name_element[1])
              ELSE UnknownText
      year == IF page.panel_headings # <<>>
              THEN Strip(page.panel_headings[Len(page.panel_headings)])
              ELSE UnknownText
      tables == page.tables
  IN  IF tables = <<>>
      THEN [value |-> None, subjects_data |-> <<>>]
      ELSE LET last_table == tables[Len(tables)]
               data == ExtractRows(last_table)
           IN  [value |-> [name |-> name, year |-> year, id |-> id,
                           subjects |-> FinalSort(Reconcile(data))],
                subjects_data |-> data]

(* StudentDataFetcher.fetch_student_data: escaped is the exception that
   leaves the call, "none" when it returns *)
fetch_student_data(id, resp) ==
  LET exc == Raised(resp)
  IN  IF exc # "none"
      THEN [value |-> None, subjects_data |-> <<>>,
            escaped |-> IF Caught(exc) THEN "none" ELSE exc]
      ELSE LET r == TryBody(id, resp.page)
           IN  [value |-> r.value, subjects_data |-> r.subjects_data,
                escaped |-> "none"]

----------------------------------------------------------------------------
(* format_student_message                                                  *)

(* the length threshold of line 354 *)
Threshold == 4000

RECURSIVE DecStr(_)
(* str(k) for k >= 0 *)
DecStr(k) ==
  IF k < 10 THEN <<Ch(AsciiDigits[k + 1])>>
  ELSE DecStr(k \div 10) \o <<Ch(AsciiDigits[(k % 10) + 1])>>

RECURSIVE SumMarks(_)
SumMarks(subjects) ==
  IF subjects = <<>> THEN 0
  ELSE subjects[1].mark + SumMarks(Tail(subjects))

PassedCount(subjects) ==
  Cardinality({i \in 1..Len(subjects) : subjects[i].mark >= PassMark * 100})

(* f"{avg_mark:.1f}" of the mean of the marks: total is the sum in
   hundredths; the mean is rounded to tenths (a mean exactly halfway between
   two tenths is rounded up here) *)
FormatAvg(total, count) ==
  LET tenths == (2 * total + 10 * count) \div (20 * count)
  IN  DecStr(tenths \div 10) \o <<Ch(".")>> \o DecStr(tenths % 10)

(* the rating literal of lines 261-268 *)
Rating(total, count) ==
  IF total >= 85 * 100 * count THEN <<Run("lit:rating85", 15)>>
  ELSE IF total >= 75 * 100 * count THEN <<Run("lit:rating75", 20)>>
  ELSE IF total >= 65 * 100 * count THEN <<Run("lit:rating65", 11)>>
  ELSE <<Run("lit:rating_else", 17)>>

book_emojis == <<"lit:book_red", "lit:book_green", "lit:book_blue",
                 "lit:book_orange">>

(* "1" if "1" in subject["semester"] else "2" *)
SemesterNum(semester) ==
  IF \E i \in 1..Len(semester) : semester[i] = Ch("1") THEN "1" ELSE "2"

RECURSIVE SubjectLines(_, _, _)
(* the lines the loop of line 283 appends from index i (0-based i - 1) on;
   current_semester is "" for Python's None *)
SubjectLines(subjects, i, current_semester) ==
  IF i > Len(subjects) THEN <<>>
  ELSE LET subject == subjects[i]
           semester_num == SemesterNum(subject.semester)
           header == IF semester_num # current_semester
                     THEN << <<Run("lit:semester_open", 12), Ch(semester_num),
                               Ch("*")>> >>
                     ELSE <<>>
           mark_display ==
             (IF subject.mark >= PassMark * 100
              THEN <<Run("lit:check", 3), Ch(" ")>>
              ELSE <<Run("lit:cross", 3), Ch(" ")>>) \o subject.mark_display
       IN  header
           \o << <<Run(book_emojis[((i - 1) % 4) + 1], 4), Ch(" ")>>
                   \o subject.name,
                 <<Ch(" "), Ch(" "), Ch(" ")>> \o mark_display,
                 <<Run("lit:rule", 21)>> >>
           \o SubjectLines(subjects, i + 1, semester_num)

RECURSIVE JoinLines(_)
(* "\n".join(lines) *)
JoinLines(lines) ==
  IF lines = <<>> THEN <<>>
  ELSE IF Len(lines) = 1 THEN lines[1]
  ELSE lines[1] \o <<NL>> \o JoinLines(Tail(lines))

(* TelegramBot.format_student_message *)
format_student_message(data) ==
  IF data = None \/ data.subjects = <<>>
  THEN <<Run("lit:no_data", 61)>>
  ELSE LET subjects == data.subjects
           total == SumMarks(subjects)
           count == Len(subjects)
           passed == PassedCount(subjects)
       IN  JoinLines(
             << <<Run("lit:name_open", 6)>> \o data.name \o <<Ch("*")>>,
                <<Run("lit:id_open", 5)>> \o data.id,
                <<>> >>
             \o SubjectLines(subjects, 1, "")
             \o << <<>>,
                   <<Run("lit:avg_open", 20)>> \o FormatAvg(total, count)
                     \o <<Run("lit:avg_close", 5)>> \o Rating(total, count),
                   <<Run("lit:passed", 18)>> \o DecStr(passed)
                     \o <<Run("lit:failed", 20)>> \o DecStr(count - passed) >>)

RECURSIVE SplitFrom(_, _, _)
(* the parts of s from atom i on, cur being the part under way *)
SplitFrom(s, i, cur) ==
  IF i > Len(s) THEN <<cur>>
  ELSE IF i < Len(s) /\ s[i] = NL /\ s[i + 1] = NL
       THEN <<cur>> \o SplitFrom(s, i + 2, <<>>)
       ELSE SplitFrom(s, i + 1, Append(cur, s[i]))

(* s.split("\n\n"): left to right, separators do not overlap *)
SplitParagraphs(s) == SplitFrom(s, 1, <<>>)

----------------------------------------------------------------------------
(* Inputs: the messages a user sends and the answers of the site           *)

(* the most data rows a grade table of the model has *)
MaxRows == 3

(* inbound message texts: " 42\n", superscript two, "abc123" (cut to "a1"),
   "4 2", the empty text and a blank one *)
Texts ==
  { S(<<" ", "4", "2", "NL">>), S(<<"sup2">>),
    S(<<"a", "1">>), S(<<"4", " ", "2">>), <<>>, S(<<" ">>) }

(* a long subject name, written run-length: "M" and 2050 times "a" *)
Math == <<Ch("M"), Run("a", 2050)>>

(* the same name but for the case of its first letter *)
MathLower == <<Ch("m"), Run("a", 2050)>>

Phys == S(<<"P", "h", "y", "s">>)

Sem1 == S(<<"F", "1">>)

Sem2 == S(<<"F", "2">>)

Date20240110 == S(<<"2", "0", "2", "4", "/", "0", "1", "/", "1", "0">>)

Date20230901 == S(<<"2", "0", "2", "3", "/", "0", "9", "/", "0", "1">>)

Date20240301 == S(<<"2", "0", "2", "4", "/", "0", "3", "/", "0", "1">>)

Date00010101 == S(<<"0", "0", "0", "1", "/", "0", "1", "/", "0", "1">>)

DateNA == S(<<"N", "/", "A">>)

(* the td cells of the rows a grade table is made of: the three sittings of
   the spec's example; a sitting with the mark 90 in Arabic-Indic digits, an
   extra column and no date; a sitting dated 0001/01/01; a subject whose
   only date is unreadable and whose mark is written with the keys of the
   numeral table; a third subject; and four rows the loop passes over (an
   unreadable mark, three cells, a blank name, an empty mark) *)
CandidateRows ==
  { <<Math, Sem1, S(<<"5", "5">>), Date20240110>>,
    <<Math, Sem2, S(<<"9", "0">>), Date20230901>>,
    <<Math, Sem1, S(<<"7", "0">>), Date20240301>>,
    <<Math, Sem2, S(<<"ar9", "ar0">>), S(<<"x">>), DateNA>>,
    <<Math, Sem2, S(<<"6", "0">>), Date00010101>>,
    <<MathLower, Sem1, S(<<" ", "Yd", "m5", "Yd", "m9", ".", "9", "9">>),
      S(<<" ">>) \o DateNA>>,
    <<Phys, Sem2, S(<<"8", "0">>), Date20240110>>,
    <<Math, Sem1, S(<<"x", "x">>), Date20240110>>,
    <<Math, Sem1, S(<<"5", "5">>)>>,
    <<S(<<" ">>), Sem1, S(<<"5", "5">>), Date20240110>>,
    <<Math, Sem1, <<>>, Date20240110>> }

(* the first row of a table, which the loop never reads: here one whose td
   cells would pass every check *)
HeaderRow == <<S(<<"H">>), Sem1, S(<<"1", "0", "0">>), Date20230901>>

(* an earlier year's table, which stands before the current one *)
HistTable == <<HeaderRow, <<S(<<"O", "l", "d">>), Sem1, S(<<"4", "0">>),
                            Date20230901>> >>

SeqsUpTo(set, n) == UNION {[1..k -> set] : k \in 0..n}

Tables == {<<HeaderRow>> \o rows : rows \in SeqsUpTo(CandidateRows, MaxRows)}

(* what surrounds the current table: nothing at all, or a long student name
   that holds a blank line, two year headings and an earlier table *)
Shells ==
  { [name_element |-> <<>>, panel_headings |-> <<>>, prior |-> <<>>],
    [name_element |-> << <<Ch(" "), Run("N", 3000), NL, NL, Run("N", 900),
                           NL>> >>,
     panel_headings |-> <<S(<<"Y", "1">>), S(<<"Y", "2", " ">>)>>,
     prior |-> <<HistTable>>] }

PageOf(shell, tables) ==
  [name_element |-> shell.name_element,
   panel_headings |-> shell.panel_headings,
   tables |-> tables]

Pages ==
  {PageOf(sh, <<>>) : sh \in Shells}
  \cup {PageOf(sh, sh.prior \o <<t>>) : sh \in Shells, t \in Tables}

EmptyPage == [name_element |-> <<>>, panel_headings |-> <<>>, tables |-> <<>>]

(* the answers of the site: a transport error, a timeout, an error status
   (404, 500), a page *)
Responses ==
  { [kind |-> "ConnectionError", status |-> 0, page |-> EmptyPage],
    [kind |-> "Timeout", status |-> 0, page |-> EmptyPage],
    [kind |-> "response", status |-> 404, page |-> EmptyPage],
    [kind |-> "response", status |-> 500, page |-> EmptyPage] }
  \cup {[kind |-> "response", status |-> 200, page |-> p] : p \in Pages}

NoResponse == [kind |-> "none", status |-> 0, page |-> EmptyPage]

----------------------------------------------------------------------------
(* The handler                                                             *)

Reply(kind, body) == [kind |-> kind, body |-> body]

InvalidIdMessage == <<Run("lit:invalid_id", 116)>>

SearchingMessage == <<Run("lit:searching", 60)>>

NotFoundMessage == <<Run("lit:not_found", 193)>>

Init ==
  /\ pc = "idle"
  /\ text = <<>>
  /\ student_id = <<>>
  /\ response = NoResponse
  /\ subjects_data = <<>>
  /\ student_data = None
  /\ escaped = "none"
  /\ fetchCalls = 0
  /\ sent = <<>>
  /\ formatted_message = <<>>
  /\ parts = <<>>
  /\ partIdx = 0
  /\ current_message = <<>>

(* handle_student_id, lines 316-330: the text is trimmed and validated; a
   text that is not all digits gets the invalid-id reply and the handler
   returns, any other gets the typing action *)
Validate ==
  /\ pc = "idle"
  /\ \E t \in Texts :
       /\ text' = t
       /\ student_id' = Strip(t)
       /\ IF ~IsDigit(Strip(t))
          THEN /\ sent' = Append(sent, Reply("invalid_id", InvalidIdMessage))
               /\ pc' = "done"
          ELSE /\ sent' = Append(sent, Reply("chat_action", S(<<"t">>)))
               /\ pc' = "searching"
  /\ UNCHANGED <<response, subjects_data, student_data, escaped, fetchCalls,
                 formatted_message, parts, partIdx, current_message>>

(* lines 333-335 *)
SendSearching ==
  /\ pc = "searching"
  /\ sent' = Append(sent, Reply("searching", SearchingMessage))
  /\ pc' = "fetch"
  /\ UNCHANGED <<text, student_id, response, subjects_data, student_data,
                 escaped, fetchCalls, formatted_message, parts, partIdx,
                 current_message>>

(* line 337: the call of fetch_student_data, against any answer of the site;
   an exception that leaves it ends the handler *)
Fetch ==
  /\ pc = "fetch"
  /\ \E resp \in Responses :
       \E r \in {fetch_student_data(student_id, resp)} :
           /\ response' = resp
           /\ subjects_data' = r.subjects_data
           /\ student_data' = r.value
           /\ escaped' = r.escaped
           /\ pc' = IF r.escaped # "none" THEN "raised" ELSE "fetched"
  /\ fetchCalls' = fetchCalls + 1
  /\ UNCHANGED <<text, student_id, sent, formatted_message, parts, partIdx,
                 current_message>>

(* lines 339-348 *)
ReplyNotFound ==
  /\ pc = "fetched"
  /\ student_data = None
  /\ sent' = Append(sent, Reply("not_found", NotFoundMessage))
  /\ pc' = "done"
  /\ UNCHANGED <<text, student_id, response, subjects_data, student_data,
                 escaped, fetchCalls, formatted_message, parts, partIdx,
                 current_message>>

(* lines 351-357 and 371-372: the report is formatted; a short one is sent
   whole, a long one is split into its parts *)
FormatReport ==
  /\ pc = "fetched"
  /\ student_data # None
  /\ LET m == format_student_message(student_data)
     IN  /\ formatted_message' = m
         /\ IF StrLen(m) > Threshold
            THEN /\ parts' = SplitParagraphs(m)
                 /\ partIdx' = 1
                 /\ current_message' = <<>>
                 /\ sent' = sent
                 /\ pc' = "split"
            ELSE /\ sent' = Append(sent, Reply("report", m))
                 /\ pc' = "done"
                 /\ UNCHANGED <<parts, partIdx, current_message>>
  /\ UNCHANGED <<text, student_id, response, subjects_data, student_data,
                 escaped, fetchCalls>>

(* mutant of PackPart: after the full message is sent the next one starts
   empty, and the part under way is lost *)
PackPartDropped(cur, part) ==
  IF StrLen(cur \o part \o <<NL, NL>>) > Threshold
  THEN [send |-> IF cur # <<>> THEN <<cur>> ELSE <<>>,
        current_message |-> <<>>]
  ELSE [send |-> <<>>, current_message |-> cur \o part \o <<NL, NL>>]

(* one turn of the loop of lines 359-367 *)
PackPart(cur, part) ==
  IF StrLen(cur \o part \o <<NL, NL>>) > Threshold
  THEN [send |-> IF cur # <<>> THEN <<cur>> ELSE <<>>,
        current_message |-> part \o <<NL, NL>>]
  ELSE [send |-> <<>>, current_message |-> cur \o part \o <<NL, NL>>]

SplitStep ==
  /\ pc = "split"
  /\ partIdx <= Len(parts)
  /\ LET r == PackPart(current_message, parts[partIdx])
     IN  /\ sent' = sent \o [i \in 1..Len(r.send) |-> Reply("report", r.send[i])]
         /\ current_message' = r.current_message
  /\ partIdx' = partIdx + 1
  /\ UNCHANGED <<pc, text, student_id, response, subjects_data, student_data,
                 escaped, fetchCalls, formatted_message, parts>>

(* lines 369-370: what is left after the loop is sent *)
SplitFlush ==
  /\ pc = "split"
  /\ partIdx > Len(parts)
  /\ sent' = IF current_message # <<>>
             THEN Append(sent, Reply("report", current_message))
             ELSE sent
  /\ pc' = "done"
  /\ UNCHANGED <<text, student_id, response, subjects_data, student_data,
                 escaped, fetchCalls, formatted_message, parts, partIdx,
                 current_message>>

(* the handler has returned (or raised); nothing of a request is kept, and
   the next message is handled from the start *)
Finish ==
  /\ pc \in {"done", "raised"}
  /\ pc' = "idle"
  /\ text' = <<>>
  /\ student_id' = <<>>
  /\ response' = NoResponse
  /\ subjects_data' = <<>>
  /\ student_data' = None
  /\ escaped' = "none"
  /\ fetchCalls' = 0
  /\ sent' = <<>>
  /\ formatted_message' = <<>>
  /\ parts' = <<>>
  /\ partIdx' = 0
  /\ current_message' = <<>>

Next ==
  \/ Validate
  \/ SendSearching
  \/ Fetch
  \/ ReplyNotFound
  \/ FormatReport
  \/ SplitStep
  \/ SplitFlush
  \/ Finish

Spec == Init /\ [][Next]_vars

----------------------------------------------------------------------------
(* Claims about the reconciliation (checked in the state fetch_student_data *)
(* leaves behind, before the handler goes on)                              *)

(* fetch_student_data has just returned a student record *)
Returned == pc = "fetched" /\ student_data # None

Subjects == student_data.subjects

NamesOf(seq) == {seq[i].name : i \in 1..Len(seq)}

(* C1: the reconciled list holds exactly one subject per distinct name of
   the raw occurrences: no name twice, none dropped, none invented, names
   compared as exact strings. *)
C1_OnePerName ==
  Returned =>
    /\ \A i, j \in 1..Len(Subjects) :
         Subjects[i].name = Subjects[j].name => i = j
    /\ NamesOf(Subjects) = NamesOf(subjects_data)

(* C1 witness: the occurrences repeat a name, are not adjacent repeats only,
   and hold two names that differ in case alone. *)
C1_Witness ==
  /\ Returned
  /\ Len(subjects_data) = 3
  /\ subjects_data[1].name = Math
  /\ subjects_data[2].name = MathLower
  /\ subjects_data[3].name = Math
  /\ Len(Subjects) = 2

MaxMark(g) == CHOOSE m \in {g[i].mark : i \in 1..Len(g)} :
                \A i \in 1..Len(g) : g[i].mark <= m

FirstAt(g, m) == CHOOSE i \in 1..Len(g) :
                   g[i].mark = m /\ \A j \in 1..(i - 1) : g[j].mark # m

(* C2: each reconciled mark is the greatest mark of the subject's
   occurrences, and the display string is that of the first occurrence, in
   row order, with that mark. *)
C2_MaxMarkFirstDisplay ==
  Returned =>
    \A k \in 1..Len(Subjects) :
      LET g == GroupOf(subjects_data, Subjects[k].name)
          m == MaxMark(g)
      IN  /\ Subjects[k].mark = m
          /\ Subjects[k].mark_display = g[FirstAt(g, m)].mark_display

(* C2 witness: a subject whose greatest mark is reached twice, with two
   display strings, after a smaller mark. *)
C2_Witness ==
  /\ Returned
  /\ \E k \in 1..Len(Subjects) :
       LET g == GroupOf(subjects_data, Subjects[k].name)
       IN  /\ Len(g) = 3
           /\ g[1].mark < g[2].mark
           /\ g[2].mark = g[3].mark
           /\ g[2].mark_display # g[3].mark_display
           /\ Subjects[k].mark_display = g[2].mark_display

(* C3: semester and release date of a reconciled subject come from one
   occurrence of the subject, whose date is the earliest, an unreadable date
   counting as the least: so when any occurrence has an unreadable date, the
   chosen one has. *)
C3_OldestOccurrence ==
  Returned =>
    \A k \in 1..Len(Subjects) :
      LET g == GroupOf(subjects_data, Subjects[k].name)
      IN  \E i \in 1..Len(g) :
            /\ Subjects[k].semester = g[i].semester
            /\ Subjects[k].release_date = g[i].release_date
            /\ Subjects[k].parsed_date = g[i].parsed_date
            /\ \A j \in 1..Len(g) : DateKey(g[i]) <= DateKey(g[j])
            /\ (\E j \in 1..Len(g) : g[j].parsed_date = NoneDate)
                 => g[i].parsed_date = NoneDate

(* C3, the example of the spec: marks 55, 90, 70 dated 2024/01/10,
   2023/09/01, 2024/03/01 give the mark 90 with the date 2023/09/01 and the
   semester of that sitting. *)
C3_Example ==
  (/\ Returned
   /\ Len(subjects_data) = 3
   /\ \A i \in 1..3 : subjects_data[i].name = Math
   /\ subjects_data[1].mark = 5500 /\ subjects_data[1].release_date = Date20240110
   /\ subjects_data[2].mark = 9000 /\ subjects_data[2].release_date = Date20230901
   /\ subjects_data[3].mark = 7000 /\ subjects_data[3].release_date = Date20240301)
  => /\ Len(Subjects) = 1
     /\ Subjects[1].mark = 9000
     /\ Subjects[1].release_date = Date20230901
     /\ Subjects[1].semester = subjects_data[2].semester

SortedByKey(seq) ==
  \A i \in 1..(Len(seq) - 1) : DateKey(seq[i]) <= DateKey(seq[i + 1])

(* C4: the returned list is in non-decreasing order of the subjects' date
   keys (the parsed date, datetime.min for an unreadable one). *)
C4_SortedByDate == Returned => SortedByKey(Subjects)

(* C4 witness: three subjects whose groups were met in another order than
   that of their dates. *)
C4_Witness ==
  /\ Returned
  /\ Len(Subjects) = 3
  /\ ~SortedByKey(Reconcile(subjects_data))
  /\ DateKey(Subjects[1]) < DateKey(Subjects[2])
  /\ DateKey(Subjects[2]) < DateKey(Subjects[3])

(* C5: a subject whose only occurrence has an unreadable date is in the
   list, before every subject whose chosen date is a valid one. *)
C5_UnparsableFirst ==
  Returned =>
    \A n \in NamesOf(subjects_data) :
      LET g == GroupOf(subjects_data, n)
      IN  (Len(g) = 1 /\ g[1].parsed_date = NoneDate) =>
            \E k \in 1..Len(Subjects) :
              /\ Subjects[k].name = n
              /\ \A j \in 1..Len(Subjects) :
                   Subjects[j].parsed_date # NoneDate => k < j

----------------------------------------------------------------------------
(* Claims about the sending of the report                                  *)

(* the report texts sent so far, in order *)
Chunks ==
  LET IsReport(r) == r.kind = "report"
      rs == SelectSeq(sent, IsReport)
  IN  [i \in 1..Len(rs) |-> rs[i].body]

LongReport == pc \in {"split", "done"} /\ StrLen(formatted_message) > Threshold

(* C6: when the report is longer than the threshold, every chunk sent is at
   most the threshold long. *)
C6_ChunksWithinThreshold ==
  LongReport => \A i \in 1..Len(Chunks) : StrLen(Chunks[i]) <= Threshold

(* the paragraphs a chunk holds, its closing separator left aside *)
ChunkParagraphs(chunk) ==
  LET p == SplitParagraphs(chunk)
  IN  IF p[Len(p)] = <<>> THEN SubSeq(p, 1, Len(p) - 1) ELSE p

RECURSIVE ParagraphsOfChunks(_)
ParagraphsOfChunks(chunks) ==
  IF chunks = <<>> THEN <<>>
  ELSE ChunkParagraphs(chunks[1]) \o ParagraphsOfChunks(Tail(chunks))

(* C7: when the report is longer than the threshold and the handler has
   ended, the paragraphs of the chunks, in the order sent, are the
   paragraphs of the report: each once, whole, in the original order. *)
C7_ChunksRebuildParagraphs ==
  (LongReport /\ pc = "done") =>
    ParagraphsOfChunks(Chunks) = SplitParagraphs(formatted_message)

(* C7 witness: a long report of four paragraphs went out in two chunks, each
   holding two paragraphs. *)
C7_Witness ==
  /\ LongReport
  /\ pc = "done"
  /\ Len(SplitParagraphs(formatted_message)) = 4
  /\ Len(Chunks) = 2
  /\ \A i \in 1..2 : Len(ChunkParagraphs(Chunks[i])) = 2

(* C8: a message whose trimmed text is not made of decimal digits alone
   never leads to a call of fetch_student_data, and is answered by the
   invalid-id message alone. *)
C8_RejectedNeverFetches ==
  (pc # "idle" /\ ~IsDecimal(Strip(text))) =>
    /\ fetchCalls = 0
    /\ pc = "done" => sent = <<Reply("invalid_id", InvalidIdMessage)>>

FetchReturned == pc \in {"fetched", "split", "done"} /\ fetchCalls = 1

NoData ==
  \/ response.kind \in {"ConnectionError", "Timeout"}
  \/ response.status \in 400..599
  \/ response.page.tables = <<>>

(* C9: no exception leaves fetch_student_data; it returns a student record
   or None; a transport error, a timeout, an error status and a page with no
   matching table give None; and for None the handler, which sent the
   typing action and the searching notice before the call, sends the
   not-found message after it and nothing else. *)
C9_NoDataIsNone ==
  /\ escaped = "none"
  /\ pc # "raised"
  /\ FetchReturned =>
       /\ \/ student_data = None
          \/ DOMAIN student_data = {"name", "year", "id", "subjects"}
       /\ NoData => student_data = None
       /\ student_data = None =>
            /\ Chunks = <<>>
            /\ pc = "fetched" => Len(sent) = 2
            /\ pc = "done" =>
                 SubSeq(sent, 3, Len(sent))
                   = <<Reply("not_found", NotFoundMessage)>>

(* C9 witness: the request timed out and the handler ended on the not-found
   message. *)
C9_Witness ==
  /\ pc = "done"
  /\ response.kind = "Timeout"
  /\ student_data = None
  /\ sent[Len(sent)] = Reply("not_found", NotFoundMessage)

(* the rows of the last matching table *)
LastTableRows == response.page.tables[Len(response.page.tables)]

(* the indices of the rows the claim says are emitted *)
ValidRowIndices ==
  {i \in 2..Len(LastTableRows) :
     LET cells == LastTableRows[i]
     IN  /\ Len(cells) >= 4
         /\ Strip(cells[1]) # <<>>
         /\ Strip(cells[3]) # <<>>
         /\ ParseFloat(convert_arabic_numbers(cells[3])) # ValueError}

KthValidRow(k) ==
  CHOOSE i \in ValidRowIndices :
    Cardinality({j \in ValidRowIndices : j <= i}) = k

(* C10: the raw occurrences are the rows after the first that have 4 cells
   or more, a name and a mark text that are not empty and a mark that reads
   as a number after numeral normalization: one occurrence per such row, in
   row order, whatever rows were passed over before it. *)
C10_RowsExtracted ==
  Returned =>
    /\ Len(subjects_data) = Cardinality(ValidRowIndices)
    /\ \A k \in 1..Len(subjects_data) :
         LET cells == LastTableRows[KthValidRow(k)]
         IN  /\ subjects_data[k].name = Strip(cells[1])
             /\ subjects_data[k].semester = Strip(cells[2])
             /\ subjects_data[k].mark_display = Strip(cells[3])
             /\ subjects_data[k].mark
                  = ParseFloat(convert_arabic_numbers(cells[3]))
             /\ subjects_data[k].release_date = Strip(cells[Len(cells)])

(* C10 witness: of three data rows the second was passed over and the first
   and third were emitted. *)
C10_Witness ==
  /\ Returned
  /\ Len(LastTableRows) = 4
  /\ ValidRowIndices = {2, 4}
  /\ Len(subjects_data) = 2
  /\ subjects_data[2].release_date = Strip(LastTableRows[4][Len(LastTableRows[4])])

----------------------------------------------------------------------------
(* Claims about the status                                                 *)

RECURSIVE CountAtoms(_, _)
(* how many atoms of the text s carry the label c *)
CountAtoms(s, c) ==
  IF s = <<>> THEN 0
  ELSE (IF Head(s).c = c THEN 1 ELSE 0) + CountAtoms(Tail(s), c)

StatusIs(st) == {k \in 1..Len(Subjects) : Subjects[k].status = st}

(* C11: the status of every reconciled subject is that of its final
   (greatest) mark: PASS exactly when the mark is 60 or more, FAIL when it is
   less, never UNKNOWN, whatever the statuses of the subject's other
   occurrences; and the report of the same record marks as passed exactly
   the subjects whose status is PASS and counts them as passed. *)
C11_StatusFromFinalMark ==
  Returned =>
    /\ \A k \in 1..Len(Subjects) :
         /\ Subjects[k].mark = MaxMark(GroupOf(subjects_data, Subjects[k].name))
         /\ Subjects[k].status \in {"PASS", "FAIL"}
         /\ Subjects[k].status = "PASS" <=> Subjects[k].mark >= 6000
    /\ PassedCount(Subjects) = Cardinality(StatusIs("PASS"))
    /\ Subjects # <<>> =>
         LET m == format_student_message(student_data)
         IN  /\ CountAtoms(m, "lit:check") = Cardinality(StatusIs("PASS"))
             /\ CountAtoms(m, "lit:cross") = Cardinality(StatusIs("FAIL"))

(* C11 witness: a subject whose greatest mark is exactly 60 has the status
   PASS though another of its occurrences failed, and a subject with the
   mark 59.99 has the status FAIL. *)
C11_Witness ==
  /\ Returned
  /\ \E k \in 1..Len(Subjects) :
       /\ Subjects[k].mark = 6000
       /\ Subjects[k].status = "PASS"
       /\ LET g == GroupOf(subjects_data, Subjects[k].name)
          IN  \E i \in 1..Len(g) : g[i].status = "FAIL"
  /\ \E k \in 1..Len(Subjects) :
       Subjects[k].mark = 5999 /\ Subjects[k].status = "FAIL"

====
